---- MODULE Spec2Model ----
(***************************************************************************)
(* Timetable search of src/src/main.rs: the chromosome encoding, the       *)
(* fitness evaluator (fitness_of), the genome builder, the mutation of one *)
(* gene (random_mutated) and the driver loop of main.                      *)
(*                                                                         *)
(* Two specifications share the statics PROBLEM and GROUP_SUBJECTS:        *)
(*   FitSpec     one call of fitness_of, one loop iteration per step, on   *)
(*               an arbitrary genome (any length, any lecturer id);        *)
(*   Spec        the driver: the initial population, simulation.step()     *)
(*               with the match arms of main, and the listing after the    *)
(*               loop.                                                     *)
(*                                                                         *)
(* Scaled quantities (the source's values are in the comments): HOURS,     *)
(* PopSize, GenLimit, MaxGenomeLen.                                        *)
(***************************************************************************)
EXTENDS Integers, Sequences, FiniteSets, TLC

\* pub const HOURS: usize = 20 (main.rs:15), scaled down; at least 2, since
\* random_mutated draws from 0..HOURS-1 and an empty range panics.
HOURS == 2
\* .of_size(200) (main.rs:249), scaled down.
PopSize == 2
\* GenerationLimit::new(100) (main.rs:266), scaled down.
GenLimit == 3
\* Longest genome handed to fitness_of in FitSpec (longer than any meeting list).
MaxGenomeLen == 4

\* MaximizeSelector::new(0.85, 20): the selection ratio, in percent.
SelectionRatioPct == 85
\* ElitistReinserter::new(&problem, false, 0.85): the ratio, in percent.
EliteRatioPct == 85

\* Option<T>: None is the empty sequence, Some(x) the sequence of x alone.
None == <<>>
Some(x) == <<x>>
Unwrap(o) == o[1]

VARIABLES
    PROBLEM,              \* static PROBLEM: the Problem value
    GROUP_SUBJECTS,       \* static GROUP_SUBJECTS: the flattened meeting list
    \* ---- one call of fitness_of (FitSpec)
    genome,               \* the argument
    idx,                  \* pairs of the zip consumed so far
    scan,                 \* the locals: fitness, used_group_hours,
                          \* used_lecturer_hours, free_lecturer_hours
    flags,                \* history: <<satisfies_group, satisfies_lecturer>> per position
    fpc,                  \* "idle" | "loop" | "returned"
    ret,                  \* the value returned
    \* ---- the driver (Spec)
    population,           \* the simulation's current population
    iteration,            \* the simulation's generation counter
    pc,                   \* "idle" | "loop" | "render" | "done"
    reported_best,        \* best fitness printed for the last completed generation
    prev_best,            \* history: reported_best of the generation before
    step_line,            \* the last "step: ..." line printed (Intermediate arm)
    final_report,         \* the stop reason and "Final result" lines (Final arm)
    genome_out,           \* the value of `let genome = loop { ... }`
    listing               \* the two sorted listings printed after the loop

fitVars == <<genome, idx, scan, flags, fpc, ret>>
drvVars == <<population, iteration, pc, reported_best, prev_best, step_line,
             final_report, genome_out, listing>>
vars == <<PROBLEM, GROUP_SUBJECTS, genome, idx, scan, flags, fpc, ret,
          population, iteration, pc, reported_best, prev_best, step_line,
          final_report, genome_out, listing>>

----------------------------------------------------------------------------
\* Helpers

Min(a, b) == IF a <= b THEN a ELSE b

RECURSIVE SumSeq(_)
SumSeq(s) == IF s = <<>> THEN 0 ELSE Head(s) + SumSeq(Tail(s))

RECURSIVE Concat(_)
Concat(ss) == IF ss = <<>> THEN <<>> ELSE Head(ss) \o Concat(Tail(ss))

Range(s) == {s[i] : i \in DOMAIN s}

Perms(S) == {p \in [1..Cardinality(S) -> S] : Range(p) = S}

\* All sequences over S of length 0..n.
SeqsUpTo(S, n) == UNION {[1..k -> S] : k \in 0..n}

----------------------------------------------------------------------------
\* The problem and the meeting list (main, lines 148-244)

ProblemNew(group_requirements, lecturer_requirements, subject_requirements) ==
    [group_requirements |-> group_requirements,
     lecturer_requirements |-> lecturer_requirements,
     subject_requirements |-> subject_requirements]

\* (0..*hours).map(|_| (*group, *subject)) for one (subject, hours) entry.
Repeat(group, subject, hours) == [k \in 1..hours |-> <<group, subject>>]

\* One group's meetings: its (subject, hours) list expanded, in list order.
GroupMeetings(group, subjects) ==
    Concat([j \in DOMAIN subjects |-> Repeat(group, subjects[j][1], subjects[j][2])])

\* group_subjects for one iteration order of the HashMap group_requirements.
Flatten(problem, order) ==
    Concat([j \in DOMAIN order |->
               GroupMeetings(order[j], problem.group_requirements[order[j]])])

\* HashMap::iter visits the groups in an unspecified order, fixed for the run.
GroupSubjectsOf(problem) ==
    {Flatten(problem, order) : order \in Perms(DOMAIN problem.group_requirements)}

\* Problems of the fitness specification: two groups, three meetings, lecturer 2
\* of the genomes absent from lecturer_requirements; and one group, three
\* meetings, one lecturer with quota 0.
FitProblemA ==
    ProblemNew((0 :> <<<<0, 2>>>>) @@ (1 :> <<<<1, 1>>>>),
               (0 :> 2) @@ (1 :> 1),
               (0 :> <<0, 1>>) @@ (1 :> <<1>>))
FitProblemB ==
    ProblemNew((0 :> <<<<0, 2>>, <<1, 1>>>>),
               (0 :> 1) @@ (1 :> 0),
               (0 :> <<0, 1>>) @@ (1 :> <<1>>))
FitProblems == {FitProblemA, FitProblemB}

\* The problem of the driver: the shape of the SMALL_EXAMPLE, cut to one group
\* with two meetings and two lecturers of one hour each, so that a perfect
\* schedule exists.
DrvProblemA ==
    ProblemNew((0 :> <<<<0, 1>>, <<1, 1>>>>),
               (0 :> 1) @@ (1 :> 1),
               (0 :> <<0, 1>>) @@ (1 :> <<1>>))
DrvProblems == {DrvProblemA}

\* Lecturer ids an arbitrary genome may carry (2 is in no lecturer_requirements).
AnyLecturers == {0, 1, 2}

----------------------------------------------------------------------------
\* fitness_of (lines 48-89)

\* free_lecturer_hours.get(&lecturer).copied().unwrap_or_default()
GetOrDefault(map, key) == IF key \in DOMAIN map THEN map[key] ELSE 0

\* used_group_hours.insert((*group, hour)): true iff the pair was not present.
SatisfiesGroup_Negated(used_group_hours, group, hour) ==
    <<group, hour>> \in used_group_hours
SatisfiesGroup(used_group_hours, group, hour) ==
    <<group, hour>> \notin used_group_hours

\* lines 63-74
SatisfiesLecturer_QuotaOffByOne(free_lecturer_hours, used_lecturer_hours, lecturer, hour) ==
    /\ GetOrDefault(free_lecturer_hours, lecturer) > 1
    /\ ~(<<lecturer, hour>> \in used_lecturer_hours)
SatisfiesLecturer_NoQuota(free_lecturer_hours, used_lecturer_hours, lecturer, hour) ==
    <<lecturer, hour>> \notin used_lecturer_hours
SatisfiesLecturer_NoCollision(free_lecturer_hours, used_lecturer_hours, lecturer, hour) ==
    GetOrDefault(free_lecturer_hours, lecturer) # 0
SatisfiesLecturer(free_lecturer_hours, used_lecturer_hours, lecturer, hour) ==
    /\ ~(GetOrDefault(free_lecturer_hours, lecturer) = 0)
    /\ ~(<<lecturer, hour>> \in used_lecturer_hours)

\* lines 81-85
Contribution(satisfies_group, satisfies_lecturer) ==
    IF satisfies_group /\ satisfies_lecturer THEN 1
    ELSE IF ~satisfies_group /\ ~satisfies_lecturer THEN -1
    ELSE 0

\* lines 49-53: the locals before the loop.
ScanStart(problem) ==
    [fitness |-> 0,
     used_group_hours |-> {},
     used_lecturer_hours |-> {},
     free_lecturer_hours |-> problem.lecturer_requirements,
     panicked |-> FALSE]

\* *free_lecturer_hours.get_mut(&lecturer).unwrap() -= 1: the unwrap of None
\* and the subtraction from 0 both end the call (panicked).
TakeHour(s, lecturer) ==
    IF lecturer \notin DOMAIN s.free_lecturer_hours
        \/ s.free_lecturer_hours[lecturer] = 0
    THEN [s EXCEPT !.panicked = TRUE]
    ELSE [s EXCEPT !.free_lecturer_hours[lecturer] = @ - 1]

\* One iteration of the loop (lines 61-85) for meeting (group, _) and gene dna.
ScanBody(s, group, dna) ==
    LET lecturer == dna[2]
        hour == dna[3]
        satisfies_group == SatisfiesGroup(s.used_group_hours, group, hour)
        satisfies_lecturer ==
            SatisfiesLecturer(s.free_lecturer_hours, s.used_lecturer_hours,
                              lecturer, hour)
        s1 == [s EXCEPT !.used_group_hours = @ \cup {<<group, hour>>}]
        s2 == IF satisfies_lecturer
              THEN [TakeHour(s1, lecturer) EXCEPT
                        !.used_lecturer_hours = @ \cup {<<lecturer, hour>>}]
              ELSE s1
    IN  [s2 EXCEPT !.fitness = @ + Contribution(satisfies_group, satisfies_lecturer)]

\* The flags of that iteration, for the history.
ScanFlags(s, group, dna) ==
    <<SatisfiesGroup(s.used_group_hours, group, dna[3]),
      SatisfiesLecturer(s.free_lecturer_hours, s.used_lecturer_hours, dna[2], dna[3])>>

\* GROUP_SUBJECTS.iter().zip(genome.iter()...): as long as the shorter one.
ZipLen(meetings, g) == Min(Len(meetings), Len(g))

RECURSIVE ScanFrom(_, _, _, _)
ScanFrom(s, meetings, g, i) ==
    IF i > ZipLen(meetings, g) \/ s.panicked THEN s
    ELSE ScanFrom(ScanBody(s, meetings[i][1], g[i]), meetings, g, i + 1)

\* fitness_of as a function of its inputs.
FitnessOf(problem, meetings, g) == ScanFrom(ScanStart(problem), meetings, g, 1).fitness

\* lines 95-101
highest_possible_fitness_OffByOne(meetings) == Len(meetings) - 1
highest_possible_fitness(meetings) == Len(meetings)
lowest_possible_fitness(meetings) == -Len(meetings)

\* average (lines 91-93): f32 round is half away from zero.
Average(values) ==
    LET s == SumSeq(values)
        n == Len(values)
    IN  IF s >= 0 THEN (2 * s + n) \div (2 * n)
        ELSE -((2 * (-s) + n) \div (2 * n))

----------------------------------------------------------------------------
\* FitSpec: one call of fitness_of on an arbitrary genome

\* Genes of an arbitrary genome: the subject is not read by fitness_of.
AnyDna == {<<0, l, h>> : l \in AnyLecturers, h \in 0..(HOURS - 1)}

DrvIdle ==
    /\ population = <<>>
    /\ iteration = 0
    /\ pc = "idle"
    /\ reported_best = None
    /\ prev_best = None
    /\ step_line = None
    /\ final_report = None
    /\ genome_out = None
    /\ listing = None

FitInit ==
    /\ PROBLEM \in FitProblems
    /\ GROUP_SUBJECTS \in GroupSubjectsOf(PROBLEM)
    /\ genome \in SeqsUpTo(AnyDna, MaxGenomeLen)
    /\ idx = 0
    /\ scan = ScanStart(PROBLEM)
    /\ flags = <<>>
    /\ fpc = "loop"
    /\ ret = None
    /\ DrvIdle

\* One iteration of the for loop.
FitLoop ==
    /\ fpc = "loop"
    /\ idx < ZipLen(GROUP_SUBJECTS, genome)
    /\ ~scan.panicked
    /\ idx' = idx + 1
    /\ scan' = ScanBody(scan, GROUP_SUBJECTS[idx + 1][1], genome[idx + 1])
    /\ flags' = Append(flags, ScanFlags(scan, GROUP_SUBJECTS[idx + 1][1], genome[idx + 1]))
    /\ UNCHANGED <<PROBLEM, GROUP_SUBJECTS, genome, fpc, ret>>
    /\ UNCHANGED drvVars

\* The zip is exhausted: `fitness` is returned.
FitReturn ==
    /\ fpc = "loop"
    /\ idx = ZipLen(GROUP_SUBJECTS, genome)
    /\ ~scan.panicked
    /\ fpc' = "returned"
    /\ ret' = Some(scan.fitness)
    /\ UNCHANGED <<PROBLEM, GROUP_SUBJECTS, genome, idx, scan, flags>>
    /\ UNCHANGED drvVars

FitNext == FitLoop \/ FitReturn

FitSpec == FitInit /\ [][FitNext]_vars

----------------------------------------------------------------------------
\* The genome builder and the mutation of one gene

\* rng.gen_range(lo..hi): any value of the half-open range.
GenRange(lo, hi) == lo..(hi - 1)

\* build_genome (lines 108-124): per meeting, a lecturer of the subject's list
\* and an hour of 0..HOURS.
BuildDna(problem, subject) ==
    {<<subject, l, h>> : l \in Range(problem.subject_requirements[subject]),
                         h \in GenRange(0, HOURS)}
BuildGenomes(problem, meetings) ==
    LET all == UNION {BuildDna(problem, meetings[i][2]) : i \in DOMAIN meetings}
    IN  {g \in [DOMAIN meetings -> all] :
            \A i \in DOMAIN meetings : g[i] \in BuildDna(problem, meetings[i][2])}

\* The bounds handed to RandomValueMutator::new (lines 259-260).
MinValue == <<0, 0, 0>>
MaxValue == <<0, "usize::MAX", HOURS - 1>>

\* random_mutated (lines 128-144): the hour from 0..max_value.0.2, the lecturer
\* from the list of the gene's own subject; the subject is kept.
RandomMutated_AnyLecturer(problem, value, min_value, max_value) ==
    {<<value[1], l, h>> : l \in DOMAIN problem.lecturer_requirements,
                          h \in GenRange(0, max_value[3])}
RandomMutated(problem, value, min_value, max_value) ==
    {<<value[1], l, h>> : l \in Range(problem.subject_requirements[value[1]]),
                          h \in GenRange(0, max_value[3])}

----------------------------------------------------------------------------
\* The operators configured in main (lines 252-267)

\* with_evaluation(&problem): the fitness of every individual.
Evaluate(problem, meetings, pop) ==
    [i \in DOMAIN pop |-> FitnessOf(problem, meetings, pop[i])]

\* The individuals' indices, best fitness first, ties in population order.
Ranking(fit) ==
    CHOOSE r \in Perms(DOMAIN fit) :
        \A i, j \in DOMAIN r :
            i < j => \/ fit[r[i]] > fit[r[j]]
                     \/ fit[r[i]] = fit[r[j]] /\ r[i] < r[j]

\* The best individual of the evaluated population, as step.result.best_solution.
BestSolution(pop, fit, rank, generation) ==
    [genome |-> pop[rank[1]], fitness |-> fit[rank[1]], generation |-> generation]

\* MaximizeSelector::new(0.85, 20): the pool is the top ceil(r * N) by rank.
PoolSize(n) == (n * SelectionRatioPct + 99) \div 100
SelectionPool(pop, rank) == {pop[rank[k]] : k \in 1..PoolSize(Len(pop))}

\* UniformCrossBreeder: every position from parent a or parent b.
UniformCrossover(a, b) ==
    {c \in [DOMAIN a -> Range(a) \cup Range(b)] :
        \A i \in DOMAIN a : c[i] \in {a[i], b[i]}}

\* RandomValueMutator::new(0.2, min, max): each gene is either kept or
\* replaced by random_mutated of it.
Mutate(problem, g) ==
    LET out == [i \in DOMAIN g |->
                   {g[i]} \cup RandomMutated(problem, g[i], MinValue, MaxValue)]
    IN  {m \in [DOMAIN g -> UNION Range(out)] : \A i \in DOMAIN g : m[i] \in out[i]}

\* One offspring: two parents of the pool, recombined, then mutated.
Bred(problem, pool) ==
    UNION {Mutate(problem, c) :
              c \in UNION {UniformCrossover(ab[1], ab[2]) : ab \in pool \X pool}}

\* ElitistReinserter::new(&problem, false, 0.85): the top-ranked individuals of
\* the old population are kept, the rest of the N places go to offspring.
NumElites(n) == (n * EliteRatioPct) \div 100
NumOffspring(n) == n - NumElites(n)
Reinsert_KeepsWorst(pop, rank, offspring) ==
    [k \in 1..NumElites(Len(pop)) |-> pop[rank[Len(pop) + 1 - k]]] \o offspring
Reinsert(pop, rank, offspring) ==
    [k \in 1..NumElites(Len(pop)) |-> pop[rank[k]]] \o offspring

\* until(GenerationLimit::new(100)): stop once the counter has reached the limit.
GenerationLimitReached(generation) == generation >= GenLimit

\* line 286: best_solution.solution.fitness == GROUP_SUBJECTS.len()
PerfectFitness_Never(best, meetings) == best.fitness > Len(meetings)
PerfectFitness(best, meetings) == best.fitness = Len(meetings)

----------------------------------------------------------------------------
\* The listing after the loop (lines 311-335)

LexLess(a, b) ==
    \E k \in DOMAIN a : a[k] < b[k] /\ \A j \in 1..(k - 1) : a[j] = b[j]

\* Vec::sort of a list of tuples.
SortRows(rows) ==
    LET p == CHOOSE q \in Perms(DOMAIN rows) :
                 \A i, j \in DOMAIN rows :
                     i < j => \/ LexLess(rows[q[i]], rows[q[j]])
                              \/ rows[q[i]] = rows[q[j]] /\ q[i] < q[j]
    IN  [i \in DOMAIN rows |-> rows[p[i]]]

\* res1 and res2: one row per pair of the zip, sorted.
Listing(meetings, g) ==
    LET n == ZipLen(meetings, g)
    IN  [res1 |-> SortRows([i \in 1..n |->
                      <<meetings[i][1], g[i][3], meetings[i][2], g[i][2]>>]),
         res2 |-> SortRows([i \in 1..n |->
                      <<g[i][2], g[i][3], meetings[i][2], meetings[i][1]>>])]

----------------------------------------------------------------------------
\* Spec: the driver

FitIdle ==
    /\ genome = <<>>
    /\ idx = 0
    /\ scan = ScanStart(PROBLEM)
    /\ flags = <<>>
    /\ fpc = "idle"
    /\ ret = None

\* The statics are set and the initial population is built (lines 243-250).
Init ==
    /\ PROBLEM \in DrvProblems
    /\ GROUP_SUBJECTS \in GroupSubjectsOf(PROBLEM)
    /\ population \in [1..PopSize -> BuildGenomes(PROBLEM, GROUP_SUBJECTS)]
    /\ iteration = 0
    /\ pc = "loop"
    /\ reported_best = None
    /\ prev_best = None
    /\ step_line = None
    /\ final_report = None
    /\ genome_out = None
    /\ listing = None
    /\ FitIdle

\* simulation.step(): the population is evaluated, its best individual is
\* determined, parents are selected, offspring bred and mutated, and the next
\* population reinserted; the counter advances.  (An Err result needs an
\* empty population, which of_size(N), N >= 1, never builds.)
SimulationStep(rank, best) ==
    /\ iteration' = iteration + 1
    /\ prev_best' = reported_best
    /\ reported_best' = Some(best.fitness)
    /\ \E offspring \in [1..NumOffspring(Len(population)) ->
                            Bred(PROBLEM, SelectionPool(population, rank))] :
           population' = Reinsert(population, rank, offspring)

\* println!("step: generation: {}, average_fitness: {}, best fitness: {}, ...")
StepLine(fit, best) ==
    [generation |-> best.generation,
     average_fitness |-> Average(fit),
     best_fitness |-> best.fitness]

\* Ok(SimResult::Intermediate(step)), best fitness below the number of
\* meetings: the step line is printed and the loop goes on.
StepIntermediate ==
    LET fit == Evaluate(PROBLEM, GROUP_SUBJECTS, population)
        rank == Ranking(fit)
        best == BestSolution(population, fit, rank, iteration + 1)
    IN  /\ pc = "loop"
        /\ ~GenerationLimitReached(iteration + 1)
        /\ ~PerfectFitness(best, GROUP_SUBJECTS)
        /\ step_line' = Some(StepLine(fit, best))
        /\ UNCHANGED <<PROBLEM, GROUP_SUBJECTS, pc, final_report, genome_out, listing>>
        /\ UNCHANGED fitVars
        /\ SimulationStep(rank, best)

\* Ok(SimResult::Intermediate(step)) with a perfect best: the step line is
\* printed and the loop breaks with the genome (lines 286-288).
StepPerfect ==
    LET fit == Evaluate(PROBLEM, GROUP_SUBJECTS, population)
        rank == Ranking(fit)
        best == BestSolution(population, fit, rank, iteration + 1)
    IN  /\ pc = "loop"
        /\ ~GenerationLimitReached(iteration + 1)
        /\ PerfectFitness(best, GROUP_SUBJECTS)
        /\ step_line' = Some(StepLine(fit, best))
        /\ genome_out' = Some(best.genome)
        /\ pc' = "render"
        /\ UNCHANGED <<PROBLEM, GROUP_SUBJECTS, final_report, listing>>
        /\ UNCHANGED fitVars
        /\ SimulationStep(rank, best)

\* Ok(SimResult::Final(..)): the stop reason and the final result are printed
\* and the loop breaks with the genome (lines 290-304).
StepFinal ==
    LET fit == Evaluate(PROBLEM, GROUP_SUBJECTS, population)
        rank == Ranking(fit)
        best == BestSolution(population, fit, rank, iteration + 1)
    IN  /\ pc = "loop"
        /\ GenerationLimitReached(iteration + 1)
        /\ final_report' = Some([stop_reason |-> "GenerationLimit",
                                 generation |-> iteration + 1,
                                 best_fitness |-> best.fitness,
                                 found_generation |-> best.generation])
        /\ genome_out' = Some(best.genome)
        /\ pc' = "render"
        /\ UNCHANGED <<PROBLEM, GROUP_SUBJECTS, step_line, listing>>
        /\ UNCHANGED fitVars
        /\ SimulationStep(rank, best)

\* After the loop: the two sorted listings of the genome are printed.
Render ==
    /\ pc = "render"
    /\ listing' = Some(Listing(GROUP_SUBJECTS, Unwrap(genome_out)))
    /\ pc' = "done"
    /\ UNCHANGED <<PROBLEM, GROUP_SUBJECTS, population, iteration, reported_best,
                   prev_best, step_line, final_report, genome_out>>
    /\ UNCHANGED fitVars

Next == StepIntermediate \/ StepPerfect \/ StepFinal \/ Render

Spec == Init /\ [][Next]_vars

----------------------------------------------------------------------------
\* Properties of fitness_of (checked under FitSpec)

M == Len(GROUP_SUBJECTS)
Returned == fpc = "returned"
FullLength == Len(genome) = M

GroupHour(i) == <<GROUP_SUBJECTS[i][1], genome[i][3]>>
LecturerHour(i) == <<genome[i][2], genome[i][3]>>
\* Meetings of the genome given to lecturer l.
Assigned(l) == Cardinality({i \in 1..M : genome[i][2] = l})
\* The lecturer's quota in lecturer_requirements; none for an absent lecturer.
QuotaOf(l) ==
    IF l \in DOMAIN PROBLEM.lecturer_requirements
    THEN PROBLEM.lecturer_requirements[l] ELSE 0

GroupHoursDistinct == \A i, j \in 1..M : i # j => GroupHour(i) # GroupHour(j)
LecturerHoursDistinct == \A i, j \in 1..M : i # j => LecturerHour(i) # LecturerHour(j)
WithinQuota == \A i \in 1..M : Assigned(genome[i][2]) <= QuotaOf(genome[i][2])
ConflictFree == GroupHoursDistinct /\ LecturerHoursDistinct /\ WithinQuota

\* C1: a genome of length M whose (group, hour) pairs are pairwise distinct,
\* whose (lecturer, hour) pairs are pairwise distinct and in which no lecturer
\* has more meetings than its quota scores exactly M: every position has both
\* flags true.
C1_PerfectScore ==
    (Returned /\ FullLength /\ ConflictFree)
        => /\ ret = Some(M)
           /\ \A i \in 1..M : flags[i] = <<TRUE, TRUE>>

\* A conflict-free genome of three meetings in which a lecturer uses its whole
\* quota of two hours has been scored.
C1_Witness ==
    /\ Returned /\ FullLength /\ ConflictFree
    /\ M = 3
    /\ \E l \in DOMAIN PROBLEM.lecturer_requirements :
           Assigned(l) = 2 /\ QuotaOf(l) = 2

\* The precondition of C2: every (group, hour) pair is shared with another
\* meeting, and every meeting's lecturer is over quota or shares its
\* (lecturer, hour) pair with another meeting.
AllColliding ==
    /\ FullLength /\ M >= 1
    /\ \A i \in 1..M : \E j \in 1..M : j # i /\ GroupHour(j) = GroupHour(i)
    /\ \A i \in 1..M :
           \/ Assigned(genome[i][2]) > QuotaOf(genome[i][2])
           \/ \E j \in 1..M : j # i /\ LecturerHour(j) = LecturerHour(i)

FirstOccurrence(i) == \A j \in 1..(i - 1) : GroupHour(j) # GroupHour(i)
DistinctGroupHours == Cardinality({GroupHour(i) : i \in 1..M})

\* C2 as claimed: such a genome scores exactly -M.
C2_AllCollidingScoresMinusM ==
    (Returned /\ AllColliding) => ret = Some(-M)

\* C2 as amended: in such a genome the first occurrence of each (group, hour)
\* pair in scan order has satisfies_group true and contributes 0 or +1, every
\* later occurrence has satisfies_group false, and the score is at least
\* -(M - D), D >= 1 being the number of distinct (group, hour) pairs; -M is
\* never returned.
C2_FirstOccurrenceSatisfiesGroup ==
    (Returned /\ AllColliding)
        => /\ \A i \in 1..M : flags[i][1] = FirstOccurrence(i)
           /\ \A i \in 1..M :
                  FirstOccurrence(i) => Contribution(flags[i][1], flags[i][2]) >= 0
           /\ Unwrap(ret) >= -(M - DistinctGroupHours)
           /\ Unwrap(ret) > -M

\* An all-colliding genome of three meetings has been scored, and its score is
\* the bound -(M - 1): only the first position escaped the penalty.
C2_Witness ==
    /\ Returned /\ AllColliding
    /\ M = 3 /\ DistinctGroupHours = 1
    /\ ret = Some(-(M - 1))

\* C3: whatever the genome (any length, any lecturer ids), the running score
\* and the value returned lie in [lowest_possible_fitness,
\* highest_possible_fitness] = [-M, M].
C3_FitnessInRange ==
    /\ lowest_possible_fitness(GROUP_SUBJECTS) = -M
    /\ lowest_possible_fitness(GROUP_SUBJECTS) <= scan.fitness
    /\ scan.fitness <= highest_possible_fitness(GROUP_SUBJECTS)
    /\ Returned => /\ lowest_possible_fitness(GROUP_SUBJECTS) <= Unwrap(ret)
                   /\ Unwrap(ret) <= highest_possible_fitness(GROUP_SUBJECTS)

\* A genome longer than the meeting list, carrying a lecturer that is absent
\* from lecturer_requirements among the scanned positions, has been scored.
C3_Witness ==
    /\ Returned
    /\ Len(genome) > M
    /\ \E i \in 1..M : genome[i][2] \notin DOMAIN PROBLEM.lecturer_requirements

\* C9: if fitness_of returns M for a genome of length M, the schedule is
\* conflict-free: no group and no lecturer has two meetings in one hour, and
\* no lecturer has more meetings than its quota.
C9_PerfectImpliesConflictFree ==
    (Returned /\ FullLength /\ ret = Some(M)) => ConflictFree

\* A genome of three meetings scored M, with one lecturer teaching two of them.
C9_Witness ==
    /\ Returned /\ FullLength /\ ret = Some(M)
    /\ M = 3
    /\ \E i, j \in 1..M : i # j /\ genome[i][2] = genome[j][2]

\* Positions before idx judged lecturer-satisfied for lecturer l.
Consumed(l, upto) == Cardinality({i \in 1..upto : flags[i][2] /\ genome[i][2] = l})

\* C10: at every step of the scan the remaining quota of every lecturer is
\* >= 0 and equals the quota minus the earlier positions judged
\* lecturer-satisfied for it; a position is lecturer-satisfied exactly when
\* quota remains and no earlier satisfied position holds the same
\* (lecturer, hour); (lecturer, hour) is recorded only at satisfied
\* positions; an absent lecturer counts as quota 0, is never satisfied and
\* never gets an entry; the call never panics and the Problem's own
\* lecturer_requirements are untouched.
C10_GreedyQuota ==
    /\ ~scan.panicked
    /\ PROBLEM \in FitProblems
    /\ DOMAIN scan.free_lecturer_hours = DOMAIN PROBLEM.lecturer_requirements
    /\ \A l \in DOMAIN PROBLEM.lecturer_requirements :
           /\ scan.free_lecturer_hours[l] >= 0
           /\ scan.free_lecturer_hours[l] =
                  PROBLEM.lecturer_requirements[l] - Consumed(l, idx)
    /\ scan.used_lecturer_hours =
           {LecturerHour(i) : i \in {k \in 1..idx : flags[k][2]}}
    /\ \A i \in 1..idx :
           flags[i][2] =
               (/\ QuotaOf(genome[i][2]) - Consumed(genome[i][2], i - 1) > 0
                /\ \A j \in 1..(i - 1) :
                       flags[j][2] => LecturerHour(j) # LecturerHour(i))
    /\ \A i \in 1..idx :
           genome[i][2] \notin DOMAIN PROBLEM.lecturer_requirements => ~flags[i][2]

\* The scan has passed a position refused because the lecturer's quota was
\* used up by earlier positions, and a position with an absent lecturer.
C10_Witness ==
    /\ idx = 3
    /\ \E l \in DOMAIN PROBLEM.lecturer_requirements :
           /\ PROBLEM.lecturer_requirements[l] > 0
           /\ scan.free_lecturer_hours[l] = 0
           /\ \E i \in 1..idx :
                  /\ genome[i][2] = l /\ ~flags[i][2]
                  /\ \A j \in 1..(i - 1) : LecturerHour(j) # LecturerHour(i)
    /\ \E i \in 1..idx : genome[i][2] \notin DOMAIN PROBLEM.lecturer_requirements

----------------------------------------------------------------------------
\* Properties of the driver (checked under Spec)

\* The invariant of a genome: one gene per meeting, the meeting's subject, an
\* eligible lecturer, an hour of [0, HOURS).
ValidGenome(g) ==
    /\ Len(g) = Len(GROUP_SUBJECTS)
    /\ \A i \in DOMAIN g :
           /\ g[i][1] = GROUP_SUBJECTS[i][2]
           /\ g[i][2] \in Range(PROBLEM.subject_requirements[GROUP_SUBJECTS[i][2]])
           /\ g[i][3] \in 0..(HOURS - 1)

\* C4: every genome of every population reachable from the initial one by
\* generations of uniform crossover, mutation and reinsertion (and the genome
\* the loop breaks with) has the meeting list's length, and at every position
\* the meeting's subject, an eligible lecturer and an hour in [0, HOURS).
C4_GenomesValid ==
    /\ Len(population) = PopSize
    /\ \A i \in DOMAIN population : ValidGenome(population[i])
    /\ genome_out # None => ValidGenome(Unwrap(genome_out))

\* Two generations have been bred, and the place filled by offspring holds a
\* genome that differs from the elite.
C4_Witness ==
    /\ iteration >= 2
    /\ population[PopSize] # population[1]

\* C5 as claimed: the hours random_mutated can give a gene of the population,
\* with the bounds the driver configures, are exactly 0..HOURS-1.
C5_MutationRedrawsAnyHour ==
    iteration >= 1 =>
        \A i \in DOMAIN population : \A k \in DOMAIN population[i] :
            {d[3] : d \in RandomMutated(PROBLEM, population[i][k], MinValue, MaxValue)}
                = 0..(HOURS - 1)

Terminated == pc \in {"render", "done"}

\* The offspring simulation.step() can breed from the current population.
NextBred ==
    Bred(PROBLEM,
         SelectionPool(population,
                       Ranking(Evaluate(PROBLEM, GROUP_SUBJECTS, population))))

\* C6: the loop terminates after at most GenLimit completed generations.  It
\* is running only while the counter is below the limit and no completed
\* generation reported a best fitness equal to the number of meetings, and a
\* running loop can always take its next step (which advances the counter);
\* once it has broken, the counter stands at the generation that ended it:
\* the limit, or the first generation whose best fitness is the number of
\* meetings.
C6_Terminates ==
    /\ iteration <= GenLimit
    /\ pc = "loop" =>
           /\ iteration < GenLimit
           /\ iteration >= 1 => reported_best # Some(Len(GROUP_SUBJECTS))
           /\ iteration >= 2 => prev_best # Some(Len(GROUP_SUBJECTS))
           /\ NextBred # {}
    /\ Terminated =>
           /\ iteration >= 1
           /\ \/ iteration = GenLimit
              \/ reported_best = Some(Len(GROUP_SUBJECTS))
           /\ iteration >= 2 => prev_best # Some(Len(GROUP_SUBJECTS))
           /\ genome_out # None
           /\ step_line # None => Unwrap(step_line).generation \in {iteration - 1, iteration}
           /\ final_report # None => Unwrap(final_report).generation = iteration

\* The loop has ended at the limit with a best fitness below the number of
\* meetings.
C6_Witness ==
    /\ pc = "done"
    /\ iteration = GenLimit
    /\ Unwrap(reported_best) < Len(GROUP_SUBJECTS)

\* C7 as claimed: however the loop ended, the stop reason and the generation
\* in which the best genome was found have been printed, and the genome
\* listed.
C7_TerminationReported ==
    pc = "done" =>
        /\ final_report # None
        /\ Unwrap(final_report).stop_reason = "GenerationLimit"
        /\ Unwrap(final_report).found_generation \in 1..GenLimit
        /\ listing # None

\* C8: the best fitness reported for a generation is never lower than the
\* one reported for the generation before it.
C8_BestNeverDecreases ==
    prev_best # None => Unwrap(reported_best) >= Unwrap(prev_best)

\* A later generation reported a strictly better best fitness than the one
\* before it, with offspring in the population.
C8_Witness ==
    /\ prev_best # None
    /\ Unwrap(reported_best) > Unwrap(prev_best)
    /\ iteration >= 2

====
